---- MODULE Spec2Model ----
(***************************************************************************)
(* Event / Visitor / Registration administration backend (app/main.py,     *)
(* app/models.py, app/schemas.py).                                         *)
(*                                                                         *)
(* The state is the database: the three tables and their id sequences.     *)
(* A request handler is an operator from the stored state and the request  *)
(* parameters to its outcome: the HTTP response together with the tables   *)
(* as the request leaves them.  One action per handler commits the outcome *)
(* of one request (a request is one session and at most one commit).       *)
(*                                                                         *)
(* Nullable columns and Optional parameters are options: NULL == <<>> for  *)
(* None / SQL NULL and <<x>> for a present value x.  Form strings are      *)
(* sequences of characters, each character a one-name string ("sup2" is    *)
(* U+00B2 SUPERSCRIPT TWO).  Columns that no handler reads in a condition  *)
(* (title, location, start_at, names, phone, ...) are not represented; the *)
(* Visitor row is therefore its id alone.                                  *)
(***************************************************************************)
EXTENDS Integers, Sequences, FiniteSets, TLC

\* ------------------------------------------------------------- bounds
\* Number of rows the model ever inserts in each table.
MaxEvents == 2
MaxVisitors == 2
MaxRegs == 2

\* ------------------------------------------------------------- options
NULL == <<>>
Some(x) == <<x>>
Val(o) == o[1]
\* func.coalesce(column, 0)
coalesce(o, d) == IF o = NULL THEN d ELSE Val(o)

\* ------------------------------------------------------------- inputs
\* Event prices submitted by the forms (the negative one is rejected).
PriceInputs == {0, 100, -5}
\* Event.status as the forms submit it (the default of the status field)
EventStatusInputs == {"planning"}
\* Optional[str] form values submitted as billed_amount:
\* absent, "", "0", "5", "100", "-1", U+00B2.
BilledInputs ==
    { NULL, Some(<<>>), Some(<<"0">>), Some(<<"5">>), Some(<<"1", "0", "0">>),
      Some(<<"-", "1">>), Some(<<"sup2">>) }
\* and as refund_amount: absent, "", "0", "5", "-1", U+00B2.
RefundInputs ==
    { NULL, Some(<<>>), Some(<<"0">>), Some(<<"5">>),
      Some(<<"-", "1">>), Some(<<"sup2">>) }
\* visitor_id query values of the event listing: absent, "", "1", "2", "x".
IdQueryInputs ==
    { NULL, Some(<<>>), Some(<<"1">>), Some(<<"2">>), Some(<<"x">>) }
\* the moment datetime.now() returns
NOW == "now"

\* ------------------------------------------------------------- str methods
DecimalChars == {"0", "1", "2", "3", "4", "5", "6", "7", "8", "9"}
\* characters for which str.isdigit() is true: decimals and digits such as
\* the superscripts, which int() does not accept
DigitChars == DecimalChars \cup {"sup2"}

DigitValue(c) ==
    CASE c = "0" -> 0 [] c = "1" -> 1 [] c = "2" -> 2 [] c = "3" -> 3
      [] c = "4" -> 4 [] c = "5" -> 5 [] c = "6" -> 6 [] c = "7" -> 7
      [] c = "8" -> 8 [] c = "9" -> 9

\* str.isdigit(): non-empty and every character is a digit
isdigit(s) == Len(s) > 0 /\ \A i \in 1..Len(s) : s[i] \in DigitChars

\* int(s) raises ValueError unless s is a decimal literal
int_raises(s) == ~(Len(s) > 0 /\ \A i \in 1..Len(s) : s[i] \in DecimalChars)

RECURSIVE int(_)
int(s) == IF Len(s) = 0 THEN 0
          ELSE 10 * int(SubSeq(s, 1, Len(s) - 1)) + DigitValue(s[Len(s)])

\* the guard `not (p == "" or p is None or p.isdigit())`
InvalidNumber(p) == ~(p = Some(<<>>) \/ p = NULL \/ isdigit(Val(p)))

\* `int(p if p else 0)` raises: p is a non-empty string int() rejects
AmountRaises(p) == p # NULL /\ p # Some(<<>>) /\ int_raises(Val(p))

\* if p == "": p = None  else: p = int(p if p else 0)
AmountOf(p) ==
    IF p = Some(<<>>) THEN NULL
    ELSE IF p = NULL THEN Some(0)
    ELSE Some(int(Val(p)))

\* ------------------------------------------------------------- state
VARIABLES
    events,       \* table events: id -> [price, status]
    visitors,     \* table visitors: set of ids
    regs,         \* table registrations: id -> row
    event_seq,    \* last id handed out for events
    visitor_seq,  \* last id handed out for visitors
    reg_seq       \* last id handed out for registrations

vars == <<events, visitors, regs, event_seq, visitor_seq, reg_seq>>

EventIds == 1..MaxEvents
VisitorIds == 1..MaxVisitors
RegIds == 1..MaxRegs

\* a function without the row k / with the row k set to v
Without(f, k) == [x \in DOMAIN f \ {k} |-> f[x]]
With(f, k, v) == [x \in DOMAIN f \cup {k} |-> IF x = k THEN v ELSE f[x]]

\* the stored state as one value
Stored ==
    [ events |-> events, visitors |-> visitors, regs |-> regs,
      event_seq |-> event_seq, visitor_seq |-> visitor_seq, reg_seq |-> reg_seq ]

\* the outcome of a request: the response and the state it leaves
Outcome(status, detail, body, db) ==
    [status |-> status, detail |-> detail, body |-> body, db |-> db]

\* a response that commits nothing (a read, or a request that fails)
Respond(status, detail, body) == Outcome(status, detail, body, Stored)

\* raise HTTPException(status_code, detail)
Raise(status, detail) == Respond(status, detail, NULL)

\* any other exception: the handler registered for Exception answers 500
InternalError == Respond(500, "Internal Server Error", NULL)

\* RedirectResponse(url, status_code=303) after db.commit()
Redirect(target, db) == Outcome(303, "", target, db)

\* the state after a request
Commit(out) ==
    /\ events' = out.db.events
    /\ visitors' = out.db.visitors
    /\ regs' = out.db.regs
    /\ event_seq' = out.db.event_seq
    /\ visitor_seq' = out.db.visitor_seq
    /\ reg_seq' = out.db.reg_seq

Init ==
    /\ events = <<>>
    /\ visitors = {}
    /\ regs = <<>>
    /\ event_seq = 0
    /\ visitor_seq = 0
    /\ reg_seq = 0

\* ------------------------------------------------------------- events
\* EventBase.price_non_negative
price_non_negative(price) == price >= 0

\* POST /events/create/
create_event(price, status) ==
    IF ~price_non_negative(price)
    THEN InternalError
    ELSE Redirect(Some(event_seq + 1),
             [Stored EXCEPT
                 !.event_seq = event_seq + 1,
                 !.events = With(events, event_seq + 1,
                                 [price |-> price, status |-> status])])

\* mutant: an edited price is pushed into the event's registrations
update_event_Reprices(event_id, price, status) ==
    IF event_id \notin DOMAIN events
    THEN Raise(404, "Event not found")
    ELSE IF ~(price >= 0)
    THEN InternalError
    ELSE Redirect(Some(event_id),
             [Stored EXCEPT
                 !.events = With(events, event_id,
                                 [price |-> price, status |-> status]),
                 !.regs = [r \in DOMAIN regs |->
                              IF regs[r].event_id = Some(event_id)
                              THEN [regs[r] EXCEPT !.price = Some(price)]
                              ELSE regs[r]]])

\* POST /events/{event_id}/update/
update_event(event_id, price, status) ==
    IF event_id \notin DOMAIN events
    THEN Raise(404, "Event not found")
    ELSE IF ~price_non_negative(price)
    THEN InternalError
    ELSE Redirect(Some(event_id),
             [Stored EXCEPT
                 !.events = With(events, event_id,
                                 [price |-> price, status |-> status])])

\* mutant: cascade="all, delete" on the relationship, the children go too
Deassociate_Cascade(rows, column, parent_id) ==
    [r \in {x \in DOMAIN rows : rows[x][column] # Some(parent_id)} |-> rows[r]]

\* Session.delete(parent) with relationship("Registration", ...) and the
\* default cascade: the children are kept and de-associated, their foreign
\* key column is set to NULL in the same flush.
Deassociate(rows, column, parent_id) ==
    [r \in DOMAIN rows |->
        IF rows[r][column] = Some(parent_id)
        THEN [rows[r] EXCEPT ![column] = NULL]
        ELSE rows[r]]

\* GET /events/{event_id}/delete/
delete_event(event_id) ==
    IF event_id \notin DOMAIN events
    THEN Raise(404, "Event not found")
    ELSE Redirect(NULL,
             [Stored EXCEPT
                 !.events = Without(events, event_id),
                 !.regs = Deassociate(regs, "event_id", event_id)])

\* ------------------------------------------------------------- visitors
\* POST /visitors/create/
create_visitor ==
    Redirect(Some(visitor_seq + 1),
        [Stored EXCEPT
            !.visitor_seq = visitor_seq + 1,
            !.visitors = visitors \cup {visitor_seq + 1}])

\* GET /visitors/{visitor_id}/delete/
delete_visitor(visitor_id) ==
    IF visitor_id \notin visitors
    THEN Raise(404, "Visitor not found")
    ELSE Redirect(NULL,
             [Stored EXCEPT
                 !.visitors = visitors \ {visitor_id},
                 !.regs = Deassociate(regs, "visitor_id", visitor_id)])

\* ------------------------------------------------------------- registrations
\* mutant: the free-event case is forgotten
InitialStatus_AlwaysUnpaid(price) == "unpaid"

\* status = "unpaid"; if not price: status = "paid"
InitialStatus(price) == IF price = 0 THEN "paid" ELSE "unpaid"

\* models.Registration(**RegistrationCreate(...).dict())
NewRegistration(visitor_id, event_id, price, status) ==
    [ visitor_id |-> Some(visitor_id), event_id |-> Some(event_id),
      status |-> status, price |-> Some(price),
      billed_amount |-> NULL, refund_amount |-> NULL,
      billed_at |-> NULL, refunded_at |-> NULL ]

\* the two lookups of create_registration, in their order
ParentMissing(event_id, visitor_id) ==
    IF visitor_id \notin visitors THEN "Visitor not found"
    ELSE IF event_id \notin DOMAIN events THEN "Event not found"
    ELSE ""

\* mutant: the event lookup is not checked, db_event.price raises on None
create_registration_NoEventCheck(event_id, visitor_id) ==
    IF visitor_id \notin visitors
    THEN Raise(404, "Visitor not found")
    ELSE IF event_id \notin DOMAIN events
    THEN InternalError
    ELSE LET price == events[event_id].price IN
         Redirect(NULL,
             [Stored EXCEPT
                 !.reg_seq = reg_seq + 1,
                 !.regs = With(regs, reg_seq + 1,
                               [ visitor_id |-> Some(visitor_id),
                                 event_id |-> Some(event_id),
                                 status |-> IF price = 0 THEN "paid" ELSE "unpaid",
                                 price |-> Some(price),
                                 billed_amount |-> NULL, refund_amount |-> NULL,
                                 billed_at |-> NULL, refunded_at |-> NULL ])])

\* POST /registrations/create/
create_registration(event_id, visitor_id) ==
    IF ParentMissing(event_id, visitor_id) # ""
    THEN Raise(404, ParentMissing(event_id, visitor_id))
    ELSE LET price == events[event_id].price IN
         Redirect(NULL,
             [Stored EXCEPT
                 !.reg_seq = reg_seq + 1,
                 !.regs = With(regs, reg_seq + 1,
                               NewRegistration(visitor_id, event_id, price,
                                               InitialStatus(price)))])

\* mutant: the comparison with the stored price is inverted
BillingApplies_Unequal(billed_amount, price) ==
    billed_amount # NULL /\ Val(billed_amount) > 0 /\ billed_amount # price

\* billed_amount is not None and billed_amount > 0 and billed_amount == price
BillingApplies(billed_amount, price) ==
    billed_amount # NULL /\ Val(billed_amount) > 0 /\ billed_amount = price

\* mutant: a refund of zero is taken as a refund
RefundApplies_FromZero(refund_amount) ==
    refund_amount # NULL /\ Val(refund_amount) >= 0

\* refund_amount is not None and refund_amount > 0
RefundApplies(refund_amount) ==
    refund_amount # NULL /\ Val(refund_amount) > 0

\* mutant: the two blocks in the other order, so billing has the last word
ApplyPayment_BillingLast(row, billed_amount, refund_amount) ==
    LET refunded == IF refund_amount # NULL /\ Val(refund_amount) > 0
                    THEN [row EXCEPT !.status = "refunded",
                                     !.refund_amount = refund_amount,
                                     !.refunded_at = Some(NOW)]
                    ELSE row
    IN IF billed_amount # NULL /\ Val(billed_amount) > 0 /\ billed_amount = row.price
       THEN [refunded EXCEPT !.status = "paid",
                             !.billed_amount = billed_amount,
                             !.billed_at = Some(NOW)]
       ELSE refunded

\* the two conditional blocks of update_registration, in their order
ApplyPayment(row, billed_amount, refund_amount) ==
    LET billed == IF BillingApplies(billed_amount, row.price)
                  THEN [row EXCEPT !.status = "paid",
                                   !.billed_amount = billed_amount,
                                   !.billed_at = Some(NOW)]
                  ELSE row
    IN IF RefundApplies(refund_amount)
       THEN [billed EXCEPT !.status = "refunded",
                           !.refund_amount = refund_amount,
                           !.refunded_at = Some(NOW)]
       ELSE billed

\* POST /registrations/{registration_id}/update/
update_registration(registration_id, billed_amount, refund_amount) ==
    IF InvalidNumber(billed_amount)
    THEN Raise(400, "Invalid billed amount")
    ELSE IF AmountRaises(billed_amount)
    THEN InternalError
    ELSE IF InvalidNumber(refund_amount)
    THEN Raise(400, "Invalid refund amount")
    ELSE IF AmountRaises(refund_amount)
    THEN InternalError
    ELSE IF registration_id \notin DOMAIN regs
    THEN Raise(404, "Registration not found")
    ELSE Redirect(NULL,
             [Stored EXCEPT
                 !.regs = With(regs, registration_id,
                               ApplyPayment(regs[registration_id],
                                            AmountOf(billed_amount),
                                            AmountOf(refund_amount)))])

\* mutant: a missing row is a silent success
delete_registration_Silent(registration_id) ==
    Redirect(NULL, [Stored EXCEPT !.regs = Without(regs, registration_id)])

\* GET /registrations/{registration_id}/delete/
delete_registration(registration_id) ==
    IF registration_id \notin DOMAIN regs
    THEN Raise(404, "Registration not found")
    ELSE Redirect(NULL, [Stored EXCEPT !.regs = Without(regs, registration_id)])

\* ------------------------------------------------------------- views
\* func.sum(expr) over the selected rows: NULL when no row is selected
RECURSIVE sql_sum(_, _)
sql_sum(rows, expr) ==
    IF rows = {} THEN NULL
    ELSE LET r == CHOOSE x \in rows : TRUE
             rest == sql_sum(rows \ {r}, expr)
         IN Some(expr[r] + coalesce(rest, 0))

\* `.scalar() or 0`
or_zero(o) == IF o = NULL \/ o = Some(0) THEN 0 ELSE Val(o)

\* .filter(models.Registration.event_id == event_id)
RegistrationsOfEvent(event_id) ==
    {r \in DOMAIN regs : regs[r].event_id = Some(event_id)}

\* mutant: no coalesce, so a NULL operand makes the difference NULL and
\* SUM skips the row
NetAmount_NoCoalesce(row) ==
    IF row.billed_amount = NULL \/ row.refund_amount = NULL THEN 0
    ELSE Val(row.billed_amount) - Val(row.refund_amount)

\* coalesce(billed_amount, 0) - coalesce(refund_amount, 0)
NetAmount(row) == coalesce(row.billed_amount, 0) - coalesce(row.refund_amount, 0)

\* coalesce(price, 0)
PriceAmount(row) == coalesce(row.price, 0)

total_income(event_id) ==
    or_zero(sql_sum(RegistrationsOfEvent(event_id),
                    [r \in DOMAIN regs |-> NetAmount(regs[r])]))

expected_income(event_id) ==
    or_zero(sql_sum(RegistrationsOfEvent(event_id),
                    [r \in DOMAIN regs |-> PriceAmount(regs[r])]))

\* db.query(Visitor).join(Registration).filter(Registration.event_id == event_id)
VisitorsOfEvent(event_id) ==
    {v \in visitors : \E r \in RegistrationsOfEvent(event_id) : regs[r].visitor_id = Some(v)}

\* GET /events/{event_id}
read_event(event_id) ==
    IF event_id \notin DOMAIN events
    THEN Raise(404, "Event not found")
    ELSE Respond(200, "",
             [ event |-> events[event_id],
               visitors |-> VisitorsOfEvent(event_id),
               total_income |-> total_income(event_id),
               expected_income |-> expected_income(event_id) ])

\* ------------------------------------------------------------- listings
\* db.query(models.Event).filter(models.Registration.visitor_id == visitor_id):
\* registrations is not joined to events, so the FROM clause is the product
\* events x registrations and the filter constrains the registration only.
EventsFilteredByVisitor(candidates, visitor_id) ==
    {e \in candidates : \E r \in DOMAIN regs : regs[r].visitor_id = Some(visitor_id)}

\* .filter(models.Event.status == status)
EventsFilteredByStatus(candidates, status) ==
    {e \in candidates : events[e].status = status}

\* GET /events/ (search and sort_by absent)
get_events(visitor_id, status) ==
    LET all == DOMAIN events
        by_visitor == IF visitor_id # NULL /\ visitor_id # Some(<<>>)
                      THEN EventsFilteredByVisitor(all, int(Val(visitor_id)))
                      ELSE all
        by_status == IF status # NULL /\ status # Some("")
                     THEN EventsFilteredByStatus(by_visitor, Val(status))
                     ELSE by_visitor
    IN
    IF InvalidNumber(visitor_id)
    THEN Raise(400, "Invalid visitor id")
    ELSE Respond(200, "", by_status)

\* db.query(models.Visitor).filter(models.Registration.event_id == event_id):
\* the product visitors x registrations, as in get_events
VisitorsFilteredByEvent(candidates, event_id) ==
    {v \in candidates : \E r \in DOMAIN regs : regs[r].event_id = Some(event_id)}

\* GET /visitors/ (search and sort_by absent); event_id is an Optional[int]
get_visitors(event_id) ==
    LET by_event == IF event_id # NULL /\ event_id # Some(0)
                    THEN VisitorsFilteredByEvent(visitors, Val(event_id))
                    ELSE visitors
    IN Respond(200, "", by_event)

\* the display lookups of get_registrations read registration.event.title and
\* registration.visitor.first_name of every stored registration: the
\* relationship of a NULL foreign key is None and the attribute access raises
LookupRaises ==
    \E r \in DOMAIN regs : regs[r].event_id = NULL \/ regs[r].visitor_id = NULL

\* .filter(models.Registration.event_id == event_id)
RegistrationsFilteredByEvent(candidates, event_id) ==
    {r \in candidates : regs[r].event_id = Some(event_id)}

\* .filter(models.Registration.visitor_id == visitor_id)
RegistrationsFilteredByVisitor(candidates, visitor_id) ==
    {r \in candidates : regs[r].visitor_id = Some(visitor_id)}

\* .filter(models.Event.status == status) on db.query(models.Registration):
\* events is not joined to registrations, so the FROM clause is the product
\* registrations x events and the filter constrains the event only.
RegistrationsFilteredByStatus(candidates, status) ==
    {r \in candidates : \E e \in DOMAIN events : events[e].status = status}

\* GET /registrations/ (sort_by absent)
get_registrations(event_id, visitor_id, status) ==
    LET all == DOMAIN regs
        by_event == IF event_id # NULL /\ event_id # Some(<<>>)
                    THEN RegistrationsFilteredByEvent(all, int(Val(event_id)))
                    ELSE all
        by_visitor == IF visitor_id # NULL /\ visitor_id # Some(<<>>)
                      THEN RegistrationsFilteredByVisitor(by_event, int(Val(visitor_id)))
                      ELSE by_event
        by_status == IF status # NULL /\ status # Some("")
                     THEN RegistrationsFilteredByStatus(by_visitor, Val(status))
                     ELSE by_visitor
    IN
    IF InvalidNumber(event_id)
    THEN Raise(400, "Invalid event id")
    ELSE IF InvalidNumber(visitor_id)
    THEN Raise(400, "Invalid visitor id")
    ELSE IF LookupRaises
    THEN InternalError
    ELSE Respond(200, "", by_status)

\* ------------------------------------------------------------- requests
StatusQueryInputs == {NULL, Some(""), Some("planning"), Some("active")}
EventIdQueryInputs == {NULL} \cup {Some(e) : e \in {0} \cup EventIds}
\* status query values of the registration listing
RegistrationStatusQueryInputs ==
    {NULL, Some(""), Some("unpaid"), Some("paid"), Some("refunded"), Some("planning")}

CreateEvent ==
    \E p \in PriceInputs, s \in EventStatusInputs :
        \E out \in {create_event(p, s)} :
            /\ out.db.event_seq <= MaxEvents
            /\ Commit(out)

UpdateEvent ==
    \E e \in EventIds, p \in PriceInputs, s \in EventStatusInputs :
        \E out \in {update_event(e, p, s)} : Commit(out)

DeleteEvent ==
    \E e \in EventIds :
        \E out \in {delete_event(e)} : Commit(out)

ReadEvent ==
    \E e \in EventIds :
        \E out \in {read_event(e)} : Commit(out)

GetEvents ==
    \E v \in IdQueryInputs, s \in StatusQueryInputs :
        \E out \in {get_events(v, s)} : Commit(out)

CreateVisitor ==
    \E out \in {create_visitor} :
        /\ out.db.visitor_seq <= MaxVisitors
        /\ Commit(out)

DeleteVisitor ==
    \E v \in VisitorIds :
        \E out \in {delete_visitor(v)} : Commit(out)

GetVisitors ==
    \E e \in EventIdQueryInputs :
        \E out \in {get_visitors(e)} : Commit(out)

CreateRegistration ==
    \E e \in EventIds, v \in VisitorIds :
        \E out \in {create_registration(e, v)} :
            /\ out.db.reg_seq <= MaxRegs
            /\ Commit(out)

UpdateRegistration ==
    \E r \in RegIds, b \in BilledInputs, f \in RefundInputs :
        \E out \in {update_registration(r, b, f)} : Commit(out)

DeleteRegistration ==
    \E r \in RegIds :
        \E out \in {delete_registration(r)} : Commit(out)

GetRegistrations ==
    \E e \in IdQueryInputs, v \in IdQueryInputs, s \in RegistrationStatusQueryInputs :
        \E out \in {get_registrations(e, v, s)} : Commit(out)

Next ==
    \/ CreateEvent
    \/ UpdateEvent
    \/ DeleteEvent
    \/ ReadEvent
    \/ GetEvents
    \/ CreateVisitor
    \/ DeleteVisitor
    \/ GetVisitors
    \/ CreateRegistration
    \/ UpdateRegistration
    \/ DeleteRegistration
    \/ GetRegistrations

Spec == Init /\ [][Next]_vars

\* ------------------------------------------------------------- properties
\* What a request says, read off its parameters alone.

\* s is a non-negative integer written in decimal
IsNonNegativeInteger(s) == Len(s) > 0 /\ \A i \in 1..Len(s) : s[i] \in DecimalChars

\* the parameter p was submitted with a non-empty value
Submitted(p) == p # NULL /\ p # Some(<<>>)

\* p is submitted and denotes the integer n
Denotes(p, n) == Submitted(p) /\ IsNonNegativeInteger(Val(p)) /\ int(Val(p)) = n

\* p is submitted and denotes an integer greater than zero
DenotesPositive(p) == Submitted(p) /\ IsNonNegativeInteger(Val(p)) /\ int(Val(p)) > 0

\* the request was carried out: it ended in the redirect
Accepted(out) == out.status = 303

\* every row of `before` is in `after`, as it was
RowsKept(before, after) ==
    \A r \in DOMAIN before : r \in DOMAIN after /\ after[r] = before[r]

\* C1: a create_registration whose visitor_id and event_id both reference
\* existing rows persists exactly one new Registration, the other rows as they
\* were; its price is the Event's price at that moment and its status is
\* "paid" if that price is zero and "unpaid" if it is greater than zero.
C1_CreateSnapshotsPrice ==
    \A e \in DOMAIN events, v \in visitors :
        LET out == create_registration(e, v)
            new == DOMAIN out.db.regs \ DOMAIN regs
        IN /\ Accepted(out)
           /\ Cardinality(new) = 1
           /\ RowsKept(regs, out.db.regs)
           /\ \A r \in new :
                /\ out.db.regs[r].visitor_id = Some(v)
                /\ out.db.regs[r].event_id = Some(e)
                /\ out.db.regs[r].price = Some(events[e].price)
                /\ events[e].price = 0 => out.db.regs[r].status = "paid"
                /\ events[e].price > 0 => out.db.regs[r].status = "unpaid"

\* a registration of a free event and one of a priced event, as created
C1_Witness ==
    \E r1 \in DOMAIN regs, r2 \in DOMAIN regs :
        /\ regs[r1].price = Some(0) /\ regs[r1].status = "paid"
        /\ regs[r2].price = Some(100) /\ regs[r2].status = "unpaid"
        /\ regs[r1].billed_at = NULL /\ regs[r2].billed_at = NULL
        /\ regs[r1].refunded_at = NULL /\ regs[r2].refunded_at = NULL

\* what C2 asks of an accepted update of row r with billed_amount b and
\* refund_amount f: the amount stored, billed_at set, and the status "paid"
\* unless the same call applies a refund
BillingRecorded(r, b, f) ==
    LET row == update_registration(r, b, f).db.regs[r] IN
    /\ row.billed_amount = regs[r].price
    /\ row.billed_at # NULL
    /\ ~DenotesPositive(f) => row.status = "paid"

\* C2 as stated: for every stored price, including 0, an accepted update whose
\* billed_amount equals the stored price records the billing.
C2_AsStated ==
    \A r \in DOMAIN regs, b \in BilledInputs, f \in RefundInputs :
        (/\ Accepted(update_registration(r, b, f))
         /\ Denotes(b, Val(regs[r].price)))
        => BillingRecorded(r, b, f)

\* C2, amended: for every stored price greater than zero, an accepted update
\* whose billed_amount equals the stored price leaves the status "paid"
\* (unless the same call applies a refund), billed_amount stored and billed_at
\* set.
C2_BillingAtPositivePrice ==
    \A r \in DOMAIN regs, b \in BilledInputs, f \in RefundInputs :
        (/\ Accepted(update_registration(r, b, f))
         /\ Denotes(b, Val(regs[r].price))
         /\ Val(regs[r].price) > 0)
        => BillingRecorded(r, b, f)

\* a registration that was billed its price
C2_Witness ==
    \E r \in DOMAIN regs :
        /\ regs[r].status = "paid"
        /\ regs[r].price = Some(100)
        /\ regs[r].billed_amount = Some(100)
        /\ regs[r].billed_at = Some(NOW)
        /\ regs[r].refund_amount = NULL

\* the refund part of C3: status "refunded", the amount stored, refunded_at set
RefundRecorded(r, b, f) ==
    LET row == update_registration(r, b, f).db.regs[r] IN
    /\ row.status = "refunded"
    /\ row.refund_amount = Some(int(Val(f)))
    /\ row.refunded_at # NULL

\* the billing fields are stamped by the same call
BillingStamped(r, b, f) ==
    LET row == update_registration(r, b, f).db.regs[r] IN
    /\ row.billed_amount = regs[r].price
    /\ row.billed_at # NULL

\* C3 as stated: an accepted update with a refund_amount greater than zero
\* records the refund whatever the previous status, and stamps the billing
\* fields too if billed_amount equals the stored price.
C3_AsStated ==
    \A r \in DOMAIN regs, b \in BilledInputs, f \in RefundInputs :
        (Accepted(update_registration(r, b, f)) /\ DenotesPositive(f))
        => /\ RefundRecorded(r, b, f)
           /\ Denotes(b, Val(regs[r].price)) => BillingStamped(r, b, f)

\* C3, amended: an accepted update with a refund_amount greater than zero
\* leaves the status "refunded", refund_amount stored and refunded_at set,
\* whatever the previous status; if billed_amount also equals the stored price
\* and that price is greater than zero, billed_amount and billed_at are
\* stamped in the same call.
C3_RefundWins ==
    \A r \in DOMAIN regs, b \in BilledInputs, f \in RefundInputs :
        (Accepted(update_registration(r, b, f)) /\ DenotesPositive(f))
        => /\ RefundRecorded(r, b, f)
           /\ (Denotes(b, Val(regs[r].price)) /\ Val(regs[r].price) > 0)
                => BillingStamped(r, b, f)

\* a registration billed and refunded, its status "refunded"
C3_Witness ==
    \E r \in DOMAIN regs :
        /\ regs[r].status = "refunded"
        /\ regs[r].refund_amount = Some(5)
        /\ regs[r].refunded_at = Some(NOW)
        /\ regs[r].billed_amount = Some(100)
        /\ regs[r].billed_at = Some(NOW)

\* C4: a Registration's price never changes after creation: whatever request
\* is served, update_event and update_registration included, every
\* registration that is there before and after keeps its price.
C4_PriceIsFixed ==
    [][\A r \in DOMAIN regs \cap DOMAIN regs' : regs'[r].price = regs[r].price]_vars

\* a billed registration whose event has been given another price since
C4_Witness ==
    \E r \in DOMAIN regs, e \in DOMAIN events :
        /\ regs[r].event_id = Some(e)
        /\ regs[r].price = Some(100)
        /\ regs[r].billed_at # NULL
        /\ events[e].price = 0

\* the sum of amount(row) over the rows 1..n of event e that store one
RECURSIVE SumOver(_, _, _)
SumOver(n, e, column) ==
    IF n = 0 THEN 0
    ELSE SumOver(n - 1, e, column) +
         ( IF n \in DOMAIN regs /\ regs[n].event_id = Some(e) /\ regs[n][column] # NULL
           THEN Val(regs[n][column]) ELSE 0 )

\* the state the end-to-end scenario of the specification ends in
ScenarioState ==
    /\ DOMAIN events = {1} /\ events[1].price = 100
    /\ visitors = {1}
    /\ DOMAIN regs = {1}
    /\ regs[1] = [ visitor_id |-> Some(1), event_id |-> Some(1), status |-> "paid",
                   price |-> Some(100), billed_amount |-> Some(100),
                   refund_amount |-> NULL, billed_at |-> Some(NOW),
                   refunded_at |-> NULL ]

\* C5: the Event view of an existing event reports total_income = the billed
\* amounts minus the refund amounts of that event's registrations (a missing
\* amount counts as zero) and expected_income = the sum of their prices; after
\* the scenario create Event(price=100), create Visitor, create Registration,
\* update Registration with billed_amount=100, both are 100.
C5_IncomeOfEventView ==
    /\ \A e \in DOMAIN events :
          LET view == read_event(e) IN
          /\ view.status = 200
          /\ view.body.total_income =
                SumOver(reg_seq, e, "billed_amount") - SumOver(reg_seq, e, "refund_amount")
          /\ view.body.expected_income = SumOver(reg_seq, e, "price")
    /\ ScenarioState =>
          /\ read_event(1).body.total_income = 100
          /\ read_event(1).body.expected_income = 100

\* an event with two registrations, one billed and one billed and refunded,
\* whose view reports 100 + 100 - 5 of an expected 200
C5_Witness ==
    \E e \in DOMAIN events :
        /\ Cardinality(RegistrationsOfEvent(e)) = 2
        /\ \E r \in RegistrationsOfEvent(e) : regs[r].refund_amount = NULL
        /\ read_event(e).body.total_income = 195
        /\ read_event(e).body.expected_income = 200

\* the request failed with NotFound and nothing was persisted
NotFoundNothingStored(out) == out.status = 404 /\ out.db = Stored

\* C6: a create_registration whose visitor_id or event_id references no
\* existing row fails with 404 and persists no Registration, so a call that
\* does persist one names an existing Visitor and an existing Event.
C6_MissingParentIs404 ==
    \A e \in EventIds, v \in VisitorIds :
        LET out == create_registration(e, v) IN
        /\ (e \notin DOMAIN events \/ v \notin visitors) => NotFoundNothingStored(out)
        /\ out.db.regs # regs => (e \in DOMAIN events /\ v \in visitors)

\* registrations exist, and a further one is refused: its visitor exists, its
\* event was deleted
C6_Witness ==
    \E e \in EventIds, v \in visitors :
        /\ e <= event_seq /\ e \notin DOMAIN events
        /\ regs # <<>>
        /\ create_registration(e, v).status = 404
        /\ create_registration(e, v).detail = "Event not found"

\* C7: for each of Event, Visitor and Registration a delete with an id that
\* matches no stored row answers NotFound (404) and leaves the three tables
\* as they are, an id that was deleted before included.
C7_DeleteOfMissingIs404 ==
    /\ \A e \in EventIds \ DOMAIN events : NotFoundNothingStored(delete_event(e))
    /\ \A v \in VisitorIds \ visitors : NotFoundNothingStored(delete_visitor(v))
    /\ \A r \in RegIds \ DOMAIN regs : NotFoundNothingStored(delete_registration(r))

\* an event, a visitor and a registration were deleted, and deleting each a
\* second time is answered 404
C7_Witness ==
    /\ \E e \in 1..event_seq :
          e \notin DOMAIN events /\ delete_event(e).status = 404
    /\ \E v \in 1..visitor_seq :
          v \notin visitors /\ delete_visitor(v).status = 404
    /\ \E r \in 1..reg_seq :
          r \notin DOMAIN regs /\ delete_registration(r).status = 404

\* C8 as stated: an update_registration in which billed_amount or
\* refund_amount is a non-empty string that is no non-negative integer fails
\* with 400 and the message of that field, and leaves every stored row as it
\* was, whatever the other field holds.
C8_AsStated ==
    \A r \in DOMAIN regs, b \in BilledInputs, f \in RefundInputs :
        LET out == update_registration(r, b, f)
            bad_billed == Submitted(b) /\ ~IsNonNegativeInteger(Val(b))
            bad_refund == Submitted(f) /\ ~IsNonNegativeInteger(Val(f))
        IN /\ bad_billed =>
                out.status = 400 /\ out.detail = "Invalid billed amount" /\ out.db = Stored
           /\ (bad_refund /\ ~bad_billed) =>
                out.status = 400 /\ out.detail = "Invalid refund amount" /\ out.db = Stored

\* the state a delete of the parent row leaves, as C9 states it: that one row
\* gone, every Registration row as it was
OnlyParentRemoved(out, parents, visitor_rows) ==
    /\ Accepted(out)
    /\ out.db.events = parents
    /\ out.db.visitors = visitor_rows
    /\ out.db.regs = regs

\* C9 as stated: deleting an existing Event or Visitor removes exactly that
\* row and leaves every Registration row unchanged in all its fields, the
\* event_id and visitor_id of the registrations of the deleted parent included.
C9_AsStated ==
    /\ \A e \in DOMAIN events :
          OnlyParentRemoved(delete_event(e), Without(events, e), visitors)
    /\ \A v \in visitors :
          OnlyParentRemoved(delete_visitor(v), events, visitors \ {v})

\* the registrations after a delete of the parent `parent_id` referenced by
\* `column`: the same ids; a row that referenced the parent differs in that
\* column only, which is NULL; the other rows are as they were
ChildrenDetached(after, column, parent_id) ==
    /\ DOMAIN after = DOMAIN regs
    /\ \A r \in DOMAIN regs :
          IF regs[r][column] = Some(parent_id)
          THEN after[r] = [regs[r] EXCEPT ![column] = NULL]
          ELSE after[r] = regs[r]

\* C9, amended: deleting an existing Event or Visitor removes exactly that one
\* row and deletes no Registration row; a registration that referenced the
\* deleted parent has its event_id (for an Event) or visitor_id (for a
\* Visitor) set to NULL and is unchanged in every other field, and every other
\* registration is unchanged in all its fields.
C9_ChildrenKeptAndDetached ==
    /\ \A e \in DOMAIN events :
          LET out == delete_event(e) IN
          /\ Accepted(out)
          /\ out.db.events = Without(events, e)
          /\ out.db.visitors = visitors
          /\ ChildrenDetached(out.db.regs, "event_id", e)
    /\ \A v \in visitors :
          LET out == delete_visitor(v) IN
          /\ Accepted(out)
          /\ out.db.events = events
          /\ out.db.visitors = visitors \ {v}
          /\ ChildrenDetached(out.db.regs, "visitor_id", v)

\* a billed registration whose event was deleted, and one whose visitor was
C9_Witness ==
    \E r1 \in DOMAIN regs, r2 \in DOMAIN regs :
        /\ regs[r1].event_id = NULL /\ regs[r1].visitor_id # NULL
        /\ regs[r1].billed_amount = Some(100)
        /\ regs[r2].visitor_id = NULL /\ regs[r2].event_id # NULL

\* the events visitor v is registered for / the visitors registered for e
EventsOfVisitor(v) ==
    {e \in DOMAIN events :
        \E r \in DOMAIN regs : regs[r].visitor_id = Some(v) /\ regs[r].event_id = Some(e)}

VisitorsRegisteredFor(e) ==
    {v \in visitors :
        \E r \in DOMAIN regs : regs[r].event_id = Some(e) /\ regs[r].visitor_id = Some(v)}

\* C10 as stated: listing events with a non-empty visitor_id=v returns exactly
\* the events e for which some Registration has visitor_id=v and event_id=e,
\* and listing visitors with event_id=e returns exactly the visitors v for
\* which some Registration has event_id=e and visitor_id=v.
C10_AsStated ==
    /\ \A q \in IdQueryInputs :
          (Submitted(q) /\ IsNonNegativeInteger(Val(q)))
          => get_events(q, NULL).body = EventsOfVisitor(int(Val(q)))
    /\ \A e \in EventIds :
          get_visitors(Some(e)).body = VisitorsRegisteredFor(e)

\* the stored registrations whose own status is s
RegistrationsWithStatus(s) == {r \in DOMAIN regs : regs[r].status = s}

\* C11 as stated: listing registrations with a non-empty status=s and no other
\* filter returns exactly the stored registrations whose own status equals s,
\* whatever the status of any Event.
C11_AsStated ==
    \A s \in RegistrationStatusQueryInputs :
        (s # NULL /\ s # Some(""))
        => LET out == get_registrations(NULL, NULL, s) IN
           /\ out.status = 200
           /\ out.body = RegistrationsWithStatus(Val(s))

\* C12 as stated: across update_registration calls the status moves one way:
\* no call sets it to "unpaid", and a registration whose status is "refunded"
\* is not moved back to "paid" by a later call.
C12_AsStated ==
    \A r \in DOMAIN regs, b \in BilledInputs, f \in RefundInputs :
        LET row == update_registration(r, b, f).db.regs[r] IN
        /\ row.status = "unpaid" => regs[r].status = "unpaid"
        /\ regs[r].status = "refunded" => row.status # "paid"

\* the payment columns of one stored registration fit together
PaymentColumnsConsistent(row) ==
    /\ row.billed_amount # NULL =>
          (row.billed_amount = row.price /\ Val(row.billed_amount) > 0)
    /\ row.billed_at # NULL <=> row.billed_amount # NULL
    /\ row.refunded_at # NULL <=> row.refund_amount # NULL
    /\ row.refund_amount # NULL => Val(row.refund_amount) > 0
    /\ row.status = "unpaid" =>
          /\ row.billed_amount = NULL /\ row.billed_at = NULL
          /\ row.refund_amount = NULL /\ row.refunded_at = NULL

\* the refund_amount values that are empty, absent or 0
NoRefund(f) == f = NULL \/ f = Some(<<>>) \/ Denotes(f, 0)

\* C13: in every reachable state each registration's billed_amount is absent
\* or equal to its price and greater than zero, billed_at is set exactly when
\* billed_amount is, refunded_at exactly when refund_amount is (which is then
\* greater than zero), and an "unpaid" registration has none of the four set;
\* an update whose billed_amount is not the stored price and whose
\* refund_amount is empty, absent or 0 changes nothing.
C13_PaymentColumnsConsistent ==
    /\ \A r \in DOMAIN regs : PaymentColumnsConsistent(regs[r])
    /\ \A r \in DOMAIN regs, b \in BilledInputs, f \in RefundInputs :
          (~Denotes(b, Val(regs[r].price)) /\ NoRefund(f))
          => update_registration(r, b, f).db = Stored

\* a registration refunded first and billed its price afterwards, next to one
\* that is still unpaid
C13_Witness ==
    \E r1 \in DOMAIN regs, r2 \in DOMAIN regs :
        /\ regs[r1].status = "paid"
        /\ regs[r1].billed_amount = Some(100)
        /\ regs[r1].refund_amount = Some(5)
        /\ regs[r2].status = "unpaid"

====
